---- MODULE Spec2Model ----
(***************************************************************************)
(* Preempt-K8s controller (src/controller): the priority event queue, the  *)
(* two watchers that fill it, the watchdog workers that drain it and       *)
(* reconcile RTResources against their pods, the event server that scales  *)
(* the watchdog pool, and the resource state updater.                      *)
(*                                                                         *)
(* Every thread is a process of the model; one action is one step of a     *)
(* thread between two suspension points (a queue call, a mutex             *)
(* acquisition, a condition wait, an API call).  The Kubernetes API server *)
(* and the POSIX message queue are the environment: the API server keeps   *)
(* the RTResources and the pods and feeds the two watch streams, the       *)
(* message queue keeps the messages in the order mq_send stored them.      *)
(***************************************************************************)
EXTENDS Integers, Sequences, FiniteSets, TLC

(***************************************************************************)
(* Bounds of the model.                                                    *)
(***************************************************************************)
MaxPool == 2        \* largest max_watchdogs of the pool configurations
MaxThreshold == 1   \* largest threshold of the pool configurations
MaxThreads == 6     \* watchdog threads alive at the same time
MaxBand == 1        \* criticalities range over 0..MaxBand
MaxQueue == 2       \* mq_maxmsg of the model's queue
MaxWatch == 2       \* watch events the API server buffers per stream
MaxReplicas == 2    \* spec.replicas ranges over 0..MaxReplicas
MaxPods == 3        \* pods that exist at the same time
MaxExt == 2         \* external changes (kubectl, kubelet kills) in a run

(***************************************************************************)
(* Program constants.                                                      *)
(***************************************************************************)
BasePriority == 94      \* watchdog.rs: sched_priority of an idle watchdog

Names == {"a", "b"}             \* the RTResources (name = uid, one namespace)
Bands == 0..MaxBand
PodIds == 1..MaxPods
Tids == 1..MaxThreads           \* pthread ids of watchdogs; 0 is "no thread"
NoVal == 0 - 1                  \* Option::None of a numeric field

VARIABLES
    cfg,                \* SharedState.config: min_watchdogs, max_watchdogs, threshold
    active_threads,     \* SharedState.active_threads
    working_threads,    \* SharedState.working_threads
    workers,            \* SharedState.workers: slot -> [id, active]
    mutex,              \* SharedState.mutex: 0 free, else the holder
    srv,                \* the event server thread (its locals and position)
    wk,                 \* the watchdog threads (their locals and position)
    watchers,           \* positions of crd_watcher and pod_watcher
    mq,                 \* the message queue: messages in mq_send order
    mq_linked,          \* the queue's name exists (mq_open O_CREAT / mq_unlink)
    proc,               \* the controller process: "running" or "exited"
    rt,                 \* API server: the RTResources
    pods,               \* API server: the pods
    rtWatch,            \* API server: RTResource watch events not yet delivered
    podWatch,           \* API server: pod watch events not yet delivered
    upd,                \* the resource state updater thread
    ext                 \* external changes still allowed in this run

vars == <<cfg, active_threads, working_threads, workers, mutex, srv, wk,
          watchers, mq, mq_linked, proc, rt, pods, rtWatch, podWatch, upd, ext>>

sharedVars == <<active_threads, working_threads, workers, mutex>>
clusterVars == <<rt, pods, rtWatch, podWatch>>

(***************************************************************************)
(* Configurations (utils/configuration.rs): MIN_WATCHDOGS, MAX_WATCHDOGS   *)
(* and THRESHOLD, with min_watchdogs <= max_watchdogs.  ExampleConfig is a *)
(* pool of up to eight watchdogs, two at start, three to be kept idle.     *)
(***************************************************************************)
ExampleConfig == [min_watchdogs |-> 2, max_watchdogs |-> 8, threshold |-> 3]

Configs ==
    { c \in [min_watchdogs : 1..MaxPool, max_watchdogs : 1..MaxPool,
             threshold : 0..MaxThreshold] :
        c.min_watchdogs <= c.max_watchdogs } \cup {ExampleConfig}

\* A pool that neither grows nor shrinks, of one and of two watchdogs.
OneWatchdog == [min_watchdogs |-> 1, max_watchdogs |-> 1, threshold |-> 0]
TwoWatchdogs == [min_watchdogs |-> 2, max_watchdogs |-> 2, threshold |-> 0]

Slots == 0..(cfg.max_watchdogs - 1)

(***************************************************************************)
(* RTResource status (utils/rtresource.rs RTResourceStatus).  A condition  *)
(* list is modelled by the status of its Progressing and of its Ready      *)
(* entry, "absent" when the list holds no entry of that type.              *)
(***************************************************************************)
NoConds == [Progressing |-> "absent", Ready |-> "absent"]
SeededConds == [Progressing |-> "Unknown", Ready |-> "Unknown"]

DefaultStatus ==
    [observed_generation |-> NoVal, desired_replicas |-> NoVal,
     replicas |-> NoVal, conditions |-> NoConds]

NoRes == [phase |-> "absent", generation |-> 0, replicas |-> 0,
          criticality |-> 0, labelled |-> FALSE, status |-> DefaultStatus]

NoPod == [owner |-> "none", phase |-> "none", criticality |-> 0, labelled |-> FALSE]

(***************************************************************************)
(* The POSIX message queue.  mq_send stores a message behind the messages  *)
(* already queued; mq_receive removes the oldest message of the highest    *)
(* priority number (mq_receive(3)).  The watchers pass the criticality as  *)
(* the priority number.                                                    *)
(***************************************************************************)
Message(n, c) == [name |-> n, band |-> c]

MqBands(q) == { q[i].band : i \in 1..Len(q) }

Highest(S) == CHOOSE b \in S : \A c \in S : c <= b
Lowest(S) == CHOOSE b \in S : \A c \in S : b <= c

RemoveAt(q, k) == [i \in 1..(Len(q) - 1) |-> IF i < k THEN q[i] ELSE q[i + 1]]

\* mq_send(3), mq_overview(7): a priority of MQ_PRIO_MAX (32768 on Linux) or
\* more is refused with EINVAL and nothing is queued; otherwise the call
\* returns once the queue has room for the message.
MqPrioMax == 2^15

MqSendReturns(q, prio) == prio >= MqPrioMax \/ Len(q) < MaxQueue

MqSend(q, m, prio) == IF prio >= MqPrioMax THEN q ELSE Append(q, m)

\* A queue that hands out the newest message of the highest priority.
MqNewestOfHighest(q) ==
    LET b == Highest(MqBands(q))
        I == { i \in 1..Len(q) : q[i].band = b }
    IN  CHOOSE i \in I : \A j \in I : j <= i

\* The index mq_receive takes: the oldest message of the highest priority.
MqReceiveIndex(q) ==
    LET b == Highest(MqBands(q))
        I == { i \in 1..Len(q) : q[i].band = b }
    IN  CHOOSE i \in I : \A j \in I : i <= j

(***************************************************************************)
(* The API server: pods of a resource in list order, and the effect of the *)
(* calls the controller makes.                                             *)
(***************************************************************************)
PodsOf(ps, n) == { p \in PodIds : ps[p].owner = n }

RECURSIVE SortedSeq(_)
SortedSeq(S) ==
    IF S = {} THEN <<>>
    ELSE LET m == Lowest(S) IN <<m>> \o SortedSeq(S \ {m})

\* A list call that finds no pod.
ListNothing(ps, n) == <<>>

\* pods_api.list(rtresource_id = uid): the pods of the resource, by name.
ListPods(ps, n) == SortedSeq(PodsOf(ps, n))

\* Pod names end in the creation time: a name is never used twice and the
\* list order is the creation order.  A deleted pod keeps its id as "gone".
FreePods(ps) == { p \in PodIds : ps[p].phase = "none" }
GonePod == [owner |-> "none", phase |-> "gone", criticality |-> 0, labelled |-> FALSE]

\* The pods after create_pod for resource r named n, and after delete_pod.
PodCreated(ps, n, r) ==
    [ps EXCEPT ![Lowest(FreePods(ps))] =
        [owner |-> n, phase |-> "Pending", criticality |-> r.criticality,
         labelled |-> r.labelled]]

PodDeleted(ps, p) == [ps EXCEPT ![p] = GonePod]

\* The label keys create_pod gives pod p: rtresource_id and criticality, and
\* what the template and the selector of the resource carry.
PodLabels(p) ==
    {"rtresource_id", "criticality"}
        \cup (IF p.labelled
              THEN {"rtresource_name", "rtresource_uid", "rtresource_namespace"}
              ELSE {})

\* A scale-down that deletes every listed pod.
TakeAll(s, k) == s

\* iter().take(k): the first k elements of s.
Take(s, k) == IF k >= Len(s) THEN s ELSE SubSeq(s, 1, k)

Abs(x) == IF x < 0 THEN -x ELSE x

RunningCount(ps, n) == Cardinality({ p \in PodsOf(ps, n) : ps[p].phase = "Running" })

AppliedEvent(n, r) == [kind |-> "Applied", name |-> n, criticality |-> r.criticality]
DeletedEvent(n, r) == [kind |-> "Deleted", name |-> n, criticality |-> r.criticality]
\* parses: the criticality label is the text of a u32 (create_pod writes
\* criticality.to_string()).
PodDeletedEvent(p) ==
    [kind |-> "Deleted", owner |-> p.owner, criticality |-> p.criticality,
     labelled |-> p.labelled, parses |-> TRUE]

(***************************************************************************)
(* Initial state: main has built the shared state (utils/vars.rs           *)
(* new_shared_state) and is about to start the threads; the cluster holds  *)
(* no RTResource and no pod.                                               *)
(***************************************************************************)
InitShared(c) ==
    /\ cfg = c
    /\ active_threads = 0
    /\ working_threads = 0
    /\ workers = [s \in 0..(c.max_watchdogs - 1) |-> [id |-> 0, active |-> FALSE]]
    /\ mutex = 0

\* A watchdog's locals.  `seen` records the queue as the watchdog's last
\* mq_receive found it, until the watchdog reports itself busy.
NoWorker ==
    [pc |-> "none", name |-> "none", band |-> 0, prio |-> 0,
     r |-> NoRes, need |-> 0, del |-> <<>>, seen |-> <<>>]

NoSnapshot == [name |-> "none", r |-> NoRes, running |-> 0]

InitThreads ==
    /\ srv = [pc |-> "boot", last_working |-> 0, i |-> 0, needed |-> 0,
              currently_active |-> 0, new_active |-> 0, error_count |-> 0, free |-> 0]
    /\ wk = [t \in Tids |-> NoWorker]
    /\ watchers = [crd |-> "open", pod |-> "open"]
    /\ upd = [pc |-> "list", items |-> <<>>, cur |-> NoSnapshot, error_count |-> 0,
              streak |-> 0]
    /\ mq = <<>>
    /\ mq_linked = FALSE
    /\ proc = "running"

InitCluster ==
    /\ rt = [n \in Names |-> NoRes]
    /\ pods = [p \in PodIds |-> NoPod]
    /\ rtWatch = <<>>
    /\ podWatch = <<>>

Init ==
    /\ \E c \in Configs : InitShared(c)
    /\ InitThreads
    /\ InitCluster
    /\ ext = MaxExt

threadVars == <<srv, wk, watchers, upd, mq, mq_linked, proc>>

(***************************************************************************)
(* External changes to the cluster (kubectl, the kubelet).  Every change   *)
(* to an RTResource is a watch event for crd_watcher and every pod         *)
(* deletion one for pod_watcher.                                           *)
(***************************************************************************)
\* kubectl create: `conds` is the condition list of the submitted status and
\* `lab` tells whether the pod template carries the labels rtresource_name,
\* rtresource_uid and rtresource_namespace that pod_watcher reads.
EnvCreate(n, reps, crit, conds, lab) ==
    /\ proc = "running"
    /\ ext > 0
    /\ rt[n].phase = "absent"
    /\ Len(rtWatch) < MaxWatch
    /\ LET r == [phase |-> "exists", generation |-> 1, replicas |-> reps,
                 criticality |-> crit, labelled |-> lab,
                 status |-> [DefaultStatus EXCEPT !.conditions = conds]]
       IN  /\ rt' = [rt EXCEPT ![n] = r]
           /\ rtWatch' = Append(rtWatch, AppliedEvent(n, r))
    /\ ext' = ext - 1
    /\ UNCHANGED <<cfg, sharedVars, threadVars, pods, podWatch>>

EnvUpdate(n, reps, crit) ==
    /\ proc = "running"
    /\ ext > 0
    /\ rt[n].phase = "exists"
    /\ <<reps, crit>> # <<rt[n].replicas, rt[n].criticality>>
    /\ Len(rtWatch) < MaxWatch
    /\ LET r == [rt[n] EXCEPT !.replicas = reps, !.criticality = crit,
                              !.generation = @ + 1]
       IN  /\ rt' = [rt EXCEPT ![n] = r]
           /\ rtWatch' = Append(rtWatch, AppliedEvent(n, r))
    /\ ext' = ext - 1
    /\ UNCHANGED <<cfg, sharedVars, threadVars, pods, podWatch>>

EnvDelete(n) ==
    /\ proc = "running"
    /\ ext > 0
    /\ rt[n].phase = "exists"
    /\ Len(rtWatch) < MaxWatch
    /\ rt' = [rt EXCEPT ![n].phase = "deleted"]
    /\ rtWatch' = Append(rtWatch, DeletedEvent(n, rt[n]))
    /\ ext' = ext - 1
    /\ UNCHANGED <<cfg, sharedVars, threadVars, pods, podWatch>>

\* The kubelet starts a pending pod.
EnvPodRunning(p) ==
    /\ proc = "running"
    /\ pods[p].phase = "Pending"
    /\ pods' = [pods EXCEPT ![p].phase = "Running"]
    /\ UNCHANGED <<cfg, sharedVars, threadVars, rt, rtWatch, podWatch, ext>>

\* The cluster deletes a pod (eviction, node failure, kubectl delete pod).
EnvPodKill(p) ==
    /\ proc = "running"
    /\ ext > 0
    /\ pods[p].owner # "none"
    /\ Len(podWatch) < MaxWatch
    /\ pods' = PodDeleted(pods, p)
    /\ podWatch' = Append(podWatch, PodDeletedEvent(pods[p]))
    /\ ext' = ext - 1
    /\ UNCHANGED <<cfg, sharedVars, threadVars, rt, rtWatch>>

(***************************************************************************)
(* crd_watcher and pod_watcher (components/resource_watcher.rs,            *)
(* components/pod_watcher.rs).  Both open the queue with O_CREAT and       *)
(* without O_NONBLOCK, so mq_send waits while the queue is full.           *)
(***************************************************************************)
CrdWatcherOpen ==
    /\ proc = "running"
    /\ watchers.crd = "open"
    /\ watchers' = [watchers EXCEPT !.crd = "watch"]
    /\ mq_linked' = TRUE
    /\ UNCHANGED <<cfg, sharedVars, srv, wk, upd, mq, proc, clusterVars, ext>>

PodWatcherOpen ==
    /\ proc = "running"
    /\ watchers.pod = "open"
    /\ watchers' = [watchers EXCEPT !.pod = "watch"]
    /\ mq_linked' = TRUE
    /\ UNCHANGED <<cfg, sharedVars, srv, wk, upd, mq, proc, clusterVars, ext>>

\* Any other item of the RTResource watch stream (the initial list or a
\* restart, a watch error): a line is printed, nothing is sent.
CrdWatcherIgnore ==
    /\ proc = "running"
    /\ watchers.crd = "watch"
    /\ rtWatch # <<>>
    /\ Head(rtWatch).kind \notin {"Applied", "Deleted"}
    /\ rtWatch' = Tail(rtWatch)
    /\ UNCHANGED <<cfg, sharedVars, srv, wk, watchers, upd, mq, mq_linked, proc,
                   rt, pods, podWatch, ext>>

\* Lines 87-94 of pod_watcher.rs: the pod events that lead to an mq_send.
\* A pod watcher that sends for every Deleted event comes first.
SendsForEveryDeleted(e) == e.kind = "Deleted"

PodEventSends(e) == e.kind = "Deleted" /\ e.labelled /\ e.parses

\* One Applied or Deleted event: one mq_send at priority spec.criticality;
\* a failed mq_send is logged.
CrdWatcherEvent ==
    /\ proc = "running"
    /\ watchers.crd = "watch"
    /\ rtWatch # <<>>
    /\ Head(rtWatch).kind \in {"Applied", "Deleted"}
    /\ MqSendReturns(mq, Head(rtWatch).criticality)
    /\ LET e == Head(rtWatch)
       IN  mq' = MqSend(mq, Message(e.name, e.criticality), e.criticality)
    /\ rtWatch' = Tail(rtWatch)
    /\ UNCHANGED <<cfg, sharedVars, srv, wk, watchers, upd, mq_linked, proc,
                   rt, pods, podWatch, ext>>

\* One Deleted pod event of a pod that carries the labels rtresource_name,
\* rtresource_uid, rtresource_namespace and criticality: a message for the
\* owner at the band of the criticality label.
PodWatcherEvent ==
    /\ proc = "running"
    /\ watchers.pod = "watch"
    /\ podWatch # <<>>
    /\ PodEventSends(Head(podWatch))
    /\ MqSendReturns(mq, Head(podWatch).criticality)
    /\ LET e == Head(podWatch)
       IN  mq' = MqSend(mq, Message(e.owner, e.criticality), e.criticality)
    /\ podWatch' = Tail(podWatch)
    /\ UNCHANGED <<cfg, sharedVars, srv, wk, watchers, upd, mq_linked, proc,
                   rt, pods, rtWatch, ext>>

\* Any other pod event (not Deleted, a label missing, a criticality label
\* that does not parse): nothing is sent.
PodWatcherSkip ==
    /\ proc = "running"
    /\ watchers.pod = "watch"
    /\ podWatch # <<>>
    /\ ~PodEventSends(Head(podWatch))
    /\ podWatch' = Tail(podWatch)
    /\ UNCHANGED <<cfg, sharedVars, srv, wk, watchers, upd, mq, mq_linked, proc,
                   rt, pods, rtWatch, ext>>

(***************************************************************************)
(* The event server (components/event_server.rs).                          *)
(***************************************************************************)
\* pthread_create: the new watchdog starts at its mq_open, with priority 94.
FreeTids == { t \in Tids : wk[t].pc = "none" /\ mutex # t }
NewWorker == [NoWorker EXCEPT !.pc = "open", !.prio = BasePriority]

\* pthread_cond_signal: a server waiting on the condition becomes runnable
\* and checks working_threads again once it holds the mutex.
Signalled(s) == IF s.pc = "condwait" THEN [s EXCEPT !.pc = "lock"] ELSE s

\* Lines 46-51: active_threads := min_watchdogs, every slot empty.
ServerBoot ==
    /\ proc = "running"
    /\ srv.pc = "boot"
    /\ active_threads' = cfg.min_watchdogs
    /\ workers' = [s \in Slots |-> [id |-> 0, active |-> FALSE]]
    /\ srv' = [srv EXCEPT !.pc = "bootspawn", !.i = 0, !.last_working = 0]
    /\ UNCHANGED <<cfg, working_threads, mutex, wk, watchers, upd, mq, mq_linked,
                   proc, clusterVars, ext>>

\* Lines 68-79: one watchdog per slot 0 .. min_watchdogs - 1.
ServerBootSpawn ==
    /\ proc = "running"
    /\ srv.pc = "bootspawn"
    /\ FreeTids # {}
    /\ LET t == Lowest(FreeTids)
       IN  /\ wk' = [wk EXCEPT ![t] = NewWorker]
           /\ workers' = [workers EXCEPT ![srv.i] = [id |-> t, active |-> TRUE]]
    /\ srv' = [srv EXCEPT !.i = @ + 1,
                          !.pc = IF srv.i + 1 < cfg.min_watchdogs
                                 THEN "bootspawn" ELSE "lock"]
    /\ UNCHANGED <<cfg, active_threads, working_threads, mutex, watchers, upd, mq,
                   mq_linked, proc, clusterVars, ext>>

\* A server that always grows the pool to max_watchdogs, and one that does
\* not cap the pool size.
NewActiveAll(active, working) == cfg.max_watchdogs

NewActiveUncapped(active, working) == working + cfg.threshold

\* A server that shrinks the pool by one.
NewActiveOneLess(active, working) == active - 1

\* Lines 96-103: the pool size the server sets when it saw `active` active
\* and `working` working watchdogs and fewer than threshold of them idle.
NewActive(active, working) ==
    LET difference == active - working
        needed == cfg.threshold - difference
        new_active == active + needed
    IN  IF new_active > cfg.max_watchdogs THEN cfg.max_watchdogs ELSE new_active

\* Lines 87-104 and 137-139: with the mutex, wait until working_threads has
\* changed since the last pass, then grow active_threads if fewer than
\* threshold watchdogs are idle.
ServerLock ==
    /\ proc = "running"
    /\ srv.pc = "lock"
    /\ mutex = 0
    /\ IF working_threads = srv.last_working
       THEN /\ srv' = [srv EXCEPT !.pc = "condwait", !.error_count = 0]
            /\ UNCHANGED active_threads
       ELSE LET difference == active_threads - working_threads
                grow == difference < cfg.threshold
                needed == IF grow THEN cfg.threshold - difference ELSE 0
                new_active == IF grow
                              THEN NewActive(active_threads, working_threads)
                              ELSE active_threads
            IN  /\ active_threads' = new_active
                /\ srv' = [srv EXCEPT
                      !.last_working = working_threads,
                      !.currently_active = active_threads,
                      !.needed = needed,
                      !.new_active = new_active,
                      !.i = 0,
                      !.error_count = 0,
                      !.pc = IF grow /\ active_threads < cfg.max_watchdogs
                             THEN "spawn" ELSE "lock"]
    /\ UNCHANGED <<cfg, working_threads, workers, mutex, wk, watchers, upd, mq,
                   mq_linked, proc, clusterVars, ext>>

\* pthread_cond_wait may return without a signal (POSIX spurious wake-up).
ServerSpuriousWake ==
    /\ proc = "running"
    /\ srv.pc = "condwait"
    /\ srv' = [srv EXCEPT !.pc = "lock"]
    /\ UNCHANGED <<cfg, sharedVars, wk, watchers, upd, mq, mq_linked, proc,
                   clusterVars, ext>>

FreeSlots == { s \in Slots : ~workers[s].active }

\* After one pass of the spawn loop with i already advanced (lines 106-111).
AfterSpawn(i) ==
    IF i < srv.needed /\ srv.currently_active + i < cfg.max_watchdogs
    THEN "spawn" ELSE "lock"

\* Lines 112-121: scan for the first slot with active = false and start a
\* watchdog in it.  The scan indexes the Vec past its end (a panic in an
\* extern "C" function: the process aborts) when no slot is free.
ServerSpawn ==
    /\ proc = "running"
    /\ srv.pc = "spawn"
    /\ IF FreeSlots = {}
       THEN /\ proc' = "exited"
            /\ UNCHANGED <<wk, workers, srv>>
       ELSE /\ FreeTids # {}
            /\ LET free == Lowest(FreeSlots)
                   t == Lowest(FreeTids)
               IN  /\ wk' = [wk EXCEPT ![t] = NewWorker]
                   /\ workers' = [workers EXCEPT ![free].id = t]
                   /\ srv' = [srv EXCEPT !.pc = "mark", !.free = free]
            /\ UNCHANGED proc
    /\ UNCHANGED <<cfg, active_threads, working_threads, mutex, watchers, upd, mq,
                   mq_linked, clusterVars, ext>>

\* Lines 130-135: the spawn succeeded: mark the slot, next pass.
ServerMark ==
    /\ proc = "running"
    /\ srv.pc = "mark"
    /\ workers' = [workers EXCEPT ![srv.free].active = TRUE]
    /\ srv' = [srv EXCEPT !.i = @ + 1, !.error_count = 0,
                          !.pc = AfterSpawn(srv.i + 1)]
    /\ UNCHANGED <<cfg, active_threads, working_threads, mutex, wk, watchers, upd,
                   mq, mq_linked, proc, clusterVars, ext>>

(***************************************************************************)
(* The watchdog (components/watchdog.rs).                                  *)
(***************************************************************************)
\* Lines 67-76: mq_open(O_RDONLY) fails when the name does not exist, and
\* the watchdog then ends the process with exit(-1).
WatchdogOpen(t) ==
    /\ proc = "running"
    /\ wk[t].pc = "open"
    /\ \/ /\ mq_linked
          /\ wk' = [wk EXCEPT ![t].pc = "recv"]
          /\ UNCHANGED proc
       \/ /\ ~mq_linked
          /\ proc' = "exited"
          /\ UNCHANGED wk
    /\ UNCHANGED <<cfg, sharedVars, srv, watchers, upd, mq, mq_linked,
                   clusterVars, ext>>

\* QueueMessage::from_bytes: the bytes a watcher wrote decode into (name, uid,
\* namespace); bytes that are not UTF-8 text of that shape do not.
Garbage(b) == [name |-> "", band |-> b]

Decodes(m) == m.name # ""

\* A watchdog that goes on with whatever bytes it received.
ReceivedUnchecked(w, m, q) ==
    [w EXCEPT !.pc = "busy", !.name = m.name, !.band = m.band, !.seen = q]

\* Lines 102-110 of watchdog.rs: a decoded message is the event to handle;
\* on Err the loop continues with the next mq_receive.
Received(w, m, q) ==
    IF Decodes(m)
    THEN [w EXCEPT !.pc = "busy", !.name = m.name, !.band = m.band, !.seen = q]
    ELSE w

\* Lines 89-116: mq_receive returns the message and its priority.
WatchdogReceive(t) ==
    /\ proc = "running"
    /\ wk[t].pc = "recv"
    /\ mq # <<>>
    /\ LET k == MqReceiveIndex(mq)
       IN  /\ wk' = [wk EXCEPT ![t] = Received(wk[t], mq[k], mq)]
           /\ mq' = RemoveAt(mq, k)
    /\ UNCHANGED <<cfg, sharedVars, srv, watchers, upd, mq_linked, proc,
                   clusterVars, ext>>

\* Lines 91-100 of watchdog.rs: mq_receive returns -1; the error is printed
\* and the loop continues.
WatchdogReceiveFails(t) ==
    /\ proc = "running"
    /\ wk[t].pc = "recv"
    /\ ext > 0
    /\ ext' = ext - 1
    /\ UNCHANGED <<cfg, sharedVars, threadVars, clusterVars>>

\* Lines 123-126: working_threads + 1 and a signal, with the mutex.
WatchdogBusy(t) ==
    /\ proc = "running"
    /\ wk[t].pc = "busy"
    /\ mutex = 0
    /\ working_threads' = working_threads + 1
    /\ srv' = Signalled(srv)
    /\ wk' = [wk EXCEPT ![t].pc = "get", ![t].seen = <<>>]
    /\ UNCHANGED <<cfg, active_threads, workers, mutex, watchers, upd, mq,
                   mq_linked, proc, clusterVars, ext>>

\* Lines 132-133: the priority for the event.
EventPriority(criticality) == BasePriority - criticality

\* Lines 133 and 297: pthread_setschedparam(thread, SCHED_FIFO, &param)
\* takes effect for a sched_priority of 1..99 and fails with EINVAL for any
\* other value; the return value is not looked at, so the thread then keeps
\* the priority `old` it had.
SchedSetParam(old, sched_priority) ==
    IF sched_priority \in 1..99 THEN sched_priority ELSE old

\* Lines 132-133, 153, 166, 259-260: take the priority of the event, then
\* get the RTResource by name; not-found leads to the branch that deletes
\* every pod of the uid.
WatchdogGet(t) ==
    /\ proc = "running"
    /\ wk[t].pc = "get"
    /\ IF rt[wk[t].name].phase = "exists"
       THEN wk' = [wk EXCEPT ![t].pc = "status", ![t].r = rt[wk[t].name],
                              ![t].prio = SchedSetParam(@, EventPriority(wk[t].band))]
       ELSE wk' = [wk EXCEPT ![t].pc = "gclist",
                              ![t].prio = SchedSetParam(@, EventPriority(wk[t].band))]
    /\ UNCHANGED <<cfg, sharedVars, srv, watchers, upd, mq, mq_linked, proc,
                   clusterVars, ext>>

\* Lines 191-205: every Progressing entry becomes True and every Ready entry
\* False; a list without such an entry stays without it.
WatchdogConditions(c) ==
    [Progressing |-> IF c.Progressing = "absent" THEN "absent" ELSE "True",
     Ready |-> IF c.Ready = "absent" THEN "absent" ELSE "False"]

\* Lines 184-205: the status the watchdog submits for the resource it got.
WatchdogStatus(r) ==
    [r.status EXCEPT !.observed_generation = r.generation,
                     !.desired_replicas = r.replicas,
                     !.conditions = WatchdogConditions(@)]

\* A condition entry that is rewritten gets last_transition_time = now().
Stamps(c) == c.Progressing # "absent" \/ c.Ready # "absent"

\* replace_status on the API server: the stored status becomes the submitted
\* one; a write that changes the stored object is a watch event.
StatusChanged(n, st, stamped) == rt[n].status # st \/ stamped

ReplaceStatus(n, st, stamped) ==
    IF rt[n].phase # "exists"
    THEN UNCHANGED <<rt, rtWatch>>
    ELSE /\ rt' = [rt EXCEPT ![n].status = st]
         /\ IF StatusChanged(n, st, stamped)
            THEN /\ Len(rtWatch) < MaxWatch
                 /\ rtWatch' = Append(rtWatch, AppliedEvent(n, rt[n]))
            ELSE UNCHANGED rtWatch

\* Lines 207-234: submit the status; a failure is logged.
WatchdogReplaceStatus(t) ==
    /\ proc = "running"
    /\ wk[t].pc = "status"
    /\ LET st == WatchdogStatus(wk[t].r)
       IN  ReplaceStatus(wk[t].name, st, Stamps(st.conditions))
    /\ wk' = [wk EXCEPT ![t].pc = "list"]
    /\ UNCHANGED <<cfg, sharedVars, srv, watchers, upd, mq, mq_linked, proc,
                   pods, podWatch, ext>>

\* A watchdog that goes back to mq_receive when the reconciliation returns.
BackToReceive(w) == [NoWorker EXCEPT !.pc = "recv", !.prio = BasePriority]

\* Lines 296-297: the reconciliation has returned: back to priority 94.
Reconciled(w) == [NoWorker EXCEPT !.pc = "post", !.prio = BasePriority]

\* Lines 241-257: list the pods labelled rtresource_id = uid and compare
\* their number with spec.replicas of the resource that was fetched.
WatchdogList(t) ==
    /\ proc = "running"
    /\ wk[t].pc = "list"
    /\ LET pod_list == ListPods(pods, wk[t].name)
           pod_count == Len(pod_list)
           desired_pod_count == wk[t].r.replicas
           pods_needed == Abs(desired_pod_count - pod_count)
       IN  wk' = [wk EXCEPT ![t] =
               IF desired_pod_count > pod_count
               THEN [@ EXCEPT !.pc = "create", !.need = pods_needed]
               ELSE IF desired_pod_count < pod_count
               THEN [@ EXCEPT !.pc = "delete", !.del = Take(pod_list, pods_needed)]
               ELSE Reconciled(@)]
    /\ UNCHANGED <<cfg, sharedVars, srv, watchers, upd, mq, mq_linked, proc,
                   clusterVars, ext>>

\* Lines 246-250: one create_pod call of the scale-up loop.
WatchdogCreatePod(t) ==
    /\ proc = "running"
    /\ wk[t].pc = "create"
    /\ FreePods(pods) # {}
    /\ pods' = PodCreated(pods, wk[t].name, wk[t].r)
    /\ wk' = [wk EXCEPT ![t] = IF @.need > 1 THEN [@ EXCEPT !.need = @ - 1]
                                ELSE Reconciled(@)]
    /\ UNCHANGED <<cfg, sharedVars, srv, watchers, upd, mq, mq_linked, proc,
                   rt, rtWatch, podWatch, ext>>

\* Lines 252-256 and 274-278: one delete_pod call; deleting a pod that is
\* already gone fails and the failure is logged.
WatchdogDeletePod(t) ==
    /\ proc = "running"
    /\ wk[t].pc = "delete"
    /\ LET p == Head(wk[t].del)
       IN  IF pods[p].owner # "none"
           THEN /\ Len(podWatch) < MaxWatch
                /\ pods' = PodDeleted(pods, p)
                /\ podWatch' = Append(podWatch, PodDeletedEvent(pods[p]))
           ELSE UNCHANGED <<pods, podWatch>>
    /\ wk' = [wk EXCEPT ![t] = IF Len(@.del) > 1 THEN [@ EXCEPT !.del = Tail(@)]
                                ELSE Reconciled(@)]
    /\ UNCHANGED <<cfg, sharedVars, srv, watchers, upd, mq, mq_linked, proc,
                   rt, rtWatch, ext>>

\* Lines 273-274: the resource is gone: every listed pod is to be deleted.
WatchdogListOrphans(t) ==
    /\ proc = "running"
    /\ wk[t].pc = "gclist"
    /\ LET pod_list == ListPods(pods, wk[t].name)
       IN  wk' = [wk EXCEPT ![t] = IF pod_list = <<>> THEN Reconciled(@)
                                   ELSE [@ EXCEPT !.pc = "delete", !.del = pod_list]]
    /\ UNCHANGED <<cfg, sharedVars, srv, watchers, upd, mq, mq_linked, proc,
                   clusterVars, ext>>

\* A watchdog that does not look at min_watchdogs.
TooManyIdle(active, working) == active - working > cfg.threshold

\* Line 313: the watchdog leaves its loop.
TooMany(active, working) ==
    active - working > cfg.threshold /\ active > cfg.min_watchdogs

\* A clean-up that looks for its thread id among the slots marked active.
OwnActiveSlots(t) == { s \in Slots : workers[s].id = t /\ workers[s].active }

\* Lines 324-326: the slots that hold the thread id of watchdog t.
OwnSlots(t) == { s \in Slots : workers[s].id = t }

\* Lines 310-335: working_threads - 1 with the mutex; when too many
\* watchdogs are idle the watchdog keeps the mutex, frees its slot,
\* decrements active_threads and only then unlocks.
WatchdogPost(t) ==
    /\ proc = "running"
    /\ wk[t].pc = "post"
    /\ mutex = 0
    /\ working_threads' = working_threads - 1
    /\ IF TooMany(active_threads, working_threads - 1)
       THEN /\ wk' = [wk EXCEPT ![t].pc = "close"]
            /\ IF OwnSlots(t) # {}
               THEN /\ workers' = [workers EXCEPT
                          ![Lowest(OwnSlots(t))] = [id |-> 0, active |-> FALSE]]
                    /\ active_threads' = active_threads - 1
                    /\ UNCHANGED mutex
               ELSE /\ mutex' = t
                    /\ UNCHANGED <<workers, active_threads>>
       ELSE /\ wk' = [wk EXCEPT ![t].pc = "recv"]
            /\ UNCHANGED <<workers, active_threads, mutex>>
    /\ UNCHANGED <<cfg, srv, watchers, upd, mq, mq_linked, proc, clusterVars, ext>>

\* Lines 340-341: mq_close, mq_unlink of the queue's name, thread exit.
WatchdogClose(t) ==
    /\ proc = "running"
    /\ wk[t].pc = "close"
    /\ mq_linked' = FALSE
    /\ wk' = [wk EXCEPT ![t] = NoWorker]
    /\ UNCHANGED <<cfg, sharedVars, srv, watchers, upd, mq, proc, clusterVars, ext>>

(***************************************************************************)
(* One reconciliation as a function of the cluster (lines 148-286 run      *)
(* with no other change in between): c is [rt, pods].                      *)
(***************************************************************************)
\* Lines 246-250: k create_pod calls; a call that fails creates nothing.
RECURSIVE CreatePods(_, _, _, _)
CreatePods(ps, n, r, k) ==
    IF k = 0 \/ FreePods(ps) = {} THEN ps
    ELSE CreatePods(PodCreated(ps, n, r), n, r, k - 1)

\* Lines 252-256 and 274-278: delete_pod for every pod of the list.
RECURSIVE DeletePods(_, _)
DeletePods(ps, list) ==
    IF list = <<>> THEN ps
    ELSE DeletePods(IF ps[Head(list)].owner # "none"
                    THEN PodDeleted(ps, Head(list)) ELSE ps, Tail(list))

Reconcile(c, n) ==
    IF c.rt[n].phase = "exists"
    THEN LET r == c.rt[n]
             pod_list == ListPods(c.pods, n)
             pod_count == Len(pod_list)
             desired_pod_count == r.replicas
             pods_needed == Abs(desired_pod_count - pod_count)
         IN  [rt |-> [c.rt EXCEPT ![n].status = WatchdogStatus(r)],
              pods |-> IF desired_pod_count > pod_count
                       THEN CreatePods(c.pods, n, r, pods_needed)
                       ELSE IF desired_pod_count < pod_count
                       THEN DeletePods(c.pods, Take(pod_list, pods_needed))
                       ELSE c.pods]
    ELSE [rt |-> c.rt, pods |-> DeletePods(c.pods, ListPods(c.pods, n))]

(***************************************************************************)
(* The resource state updater (components/resource_state_updater.rs).      *)
(***************************************************************************)
\* Lines 26-34: the listed RTResources, sorted by criticality (a stable
\* sort of the list, which the API server returns by name).
NameOrder(m, o) == m = o \/ (m = "a" /\ o = "b")

\* The list as the API server returns it, left unsorted.
SortByName(S) ==
    LET item(n) == IF n \in S THEN <<[name |-> n, r |-> rt[n], running |-> 0]>>
                   ELSE <<>>
    IN  item("a") \o item("b")

RECURSIVE SortByKey(_)
SortByKey(S) ==
    IF S = {} THEN <<>>
    ELSE LET c == Lowest({ rt[n].criticality : n \in S })
             n == CHOOSE m \in S : /\ rt[m].criticality = c
                                   /\ \A o \in S : rt[o].criticality = c => NameOrder(m, o)
         IN  <<[name |-> n, r |-> rt[n], running |-> 0]>> \o SortByKey(S \ {n})

\* A state updater that handles every listed resource.
AnyResource(item) == TRUE

\* Lines 36-38: only a resource with a Progressing = True entry is handled.
IsProgressing(item) == item.r.status.conditions.Progressing = "True"

RECURSIVE SkipIdle(_)
SkipIdle(items) ==
    IF items = <<>> \/ IsProgressing(Head(items)) THEN items
    ELSE SkipIdle(Tail(items))

\* The updater's position after `items` are left of the pass.
UpdaterAt(u, items) ==
    LET rest == SkipIdle(items)
    IN  IF rest = <<>>
        THEN [u EXCEPT !.pc = "list", !.items = <<>>, !.cur = NoSnapshot]
        ELSE [u EXCEPT !.pc = "pods", !.items = Tail(rest), !.cur = Head(rest)]

\* Line 26: list the RTResources.  (streak is not a variable of the code:
\* it records how many list calls have failed since the last one that
\* succeeded.)
UpdaterList ==
    /\ proc = "running"
    /\ upd.pc = "list"
    /\ upd' = UpdaterAt([upd EXCEPT !.streak = 0],
                        SortByKey({ n \in Names : rt[n].phase = "exists" }))
    /\ UNCHANGED <<cfg, sharedVars, srv, wk, watchers, mq, mq_linked, proc,
                   clusterVars, ext>>

\* Lines 46-65: list the pods of the resource, count those Running.
UpdaterCount ==
    /\ proc = "running"
    /\ upd.pc = "pods"
    /\ upd' = [upd EXCEPT !.pc = "write",
                          !.cur.running = RunningCount(pods, upd.cur.name)]
    /\ UNCHANGED <<cfg, sharedVars, srv, wk, watchers, mq, mq_linked, proc,
                   clusterVars, ext>>

\* Lines 40, 76-98: the status the updater submits: replicas := running,
\* and Progressing False / Ready True when running equals desired_replicas
\* (0 when the status holds none).
UpdaterDesired(r) ==
    IF r.status.desired_replicas = NoVal THEN 0 ELSE r.status.desired_replicas

UpdaterConditions(c) ==
    [Progressing |-> IF c.Progressing = "absent" THEN "absent" ELSE "False",
     Ready |-> IF c.Ready = "absent" THEN "absent" ELSE "True"]

UpdaterStatus(r, running) ==
    [r.status EXCEPT !.replicas = running,
                     !.conditions = IF running = UpdaterDesired(r)
                                    THEN UpdaterConditions(@) ELSE @]

\* Lines 104-120: submit the status; a failure is logged.
UpdaterReplaceStatus ==
    /\ proc = "running"
    /\ upd.pc = "write"
    /\ LET r == upd.cur.r
           st == UpdaterStatus(r, upd.cur.running)
       IN  ReplaceStatus(upd.cur.name, st, upd.cur.running = UpdaterDesired(r))
    /\ upd' = UpdaterAt(upd, upd.items)
    /\ UNCHANGED <<cfg, sharedVars, srv, wk, watchers, mq, mq_linked, proc,
                   pods, podWatch, ext>>

(***************************************************************************)
(* Next-state relations.  main.rs (lines 130-171) starts crd_watcher,      *)
(* pod_watcher and the server, and the server starts the watchdogs:        *)
(* NextMain is the process as main builds it.  Next adds the resource      *)
(* state updater as one more thread of the process.                        *)
(***************************************************************************)
Environment ==
    \/ \E n \in Names, reps \in 0..MaxReplicas, crit \in Bands,
          conds \in {NoConds, SeededConds}, lab \in BOOLEAN :
            EnvCreate(n, reps, crit, conds, lab)
    \/ \E n \in Names, reps \in 0..MaxReplicas, crit \in Bands :
            EnvUpdate(n, reps, crit)
    \/ \E n \in Names : EnvDelete(n)
    \/ \E p \in PodIds : EnvPodRunning(p)
    \/ \E p \in PodIds : EnvPodKill(p)

Watchers ==
    \/ CrdWatcherOpen
    \/ PodWatcherOpen
    \/ CrdWatcherEvent
    \/ PodWatcherEvent
    \/ PodWatcherSkip

Server ==
    \/ ServerBoot
    \/ ServerBootSpawn
    \/ ServerLock
    \/ ServerSpuriousWake
    \/ ServerSpawn
    \/ ServerMark

Watchdog(t) ==
    \/ WatchdogOpen(t)
    \/ WatchdogReceive(t)
    \/ WatchdogBusy(t)
    \/ WatchdogGet(t)
    \/ WatchdogReplaceStatus(t)
    \/ WatchdogList(t)
    \/ WatchdogCreatePod(t)
    \/ WatchdogDeletePod(t)
    \/ WatchdogListOrphans(t)
    \/ WatchdogPost(t)
    \/ WatchdogClose(t)

Updater ==
    \/ UpdaterList
    \/ UpdaterCount
    \/ UpdaterReplaceStatus

NextMain ==
    \/ Environment
    \/ Watchers
    \/ Server
    \/ \E t \in Tids : Watchdog(t)

Next ==
    \/ NextMain
    \/ Updater

Spec == Init /\ [][Next]_vars

(***************************************************************************)
(* The specifications that are checked are Spec with the configuration and *)
(* the external changes of a scenario; each leaves out the actions its     *)
(* scenario never enables.                                                 *)
(***************************************************************************)
InitWith(C, e) ==
    /\ \E c \in C : InitShared(c)
    /\ InitThreads
    /\ InitCluster
    /\ ext = e

\* The server and the watchdogs of a pool that neither grows nor shrinks.
StaticServer ==
    \/ ServerBoot
    \/ ServerBootSpawn
    \/ ServerLock
    \/ ServerSpuriousWake

StaticWatchdog(t) ==
    \/ WatchdogOpen(t)
    \/ WatchdogReceive(t)
    \/ WatchdogBusy(t)
    \/ WatchdogGet(t)
    \/ WatchdogReplaceStatus(t)
    \/ WatchdogList(t)
    \/ WatchdogCreatePod(t)
    \/ WatchdogDeletePod(t)
    \/ WatchdogListOrphans(t)
    \/ WatchdogPost(t)

(***************************************************************************)
(* SpecQueue: the queue between the two watchers and two watchdogs.  Two   *)
(* RTResources of either criticality are created, their pods carry the     *)
(* labels pod_watcher looks for, and pods are deleted from outside.        *)
(***************************************************************************)
MaxQueueExt == 3

NextQueue ==
    \/ \E n \in Names, reps \in 0..1, crit \in Bands :
            EnvCreate(n, reps, crit, NoConds, TRUE)
    \/ \E p \in PodIds : EnvPodKill(p)
    \/ CrdWatcherOpen
    \/ PodWatcherOpen
    \/ CrdWatcherEvent
    \/ PodWatcherEvent
    \/ StaticServer
    \/ \E t \in Tids : \/ WatchdogOpen(t)
                       \/ WatchdogReceive(t)
                       \/ WatchdogBusy(t)
                       \/ WatchdogGet(t)
                       \/ WatchdogReplaceStatus(t)
                       \/ WatchdogList(t)
                       \/ WatchdogCreatePod(t)
                       \/ WatchdogPost(t)

SpecQueue == InitWith({TwoWatchdogs}, MaxQueueExt) /\ [][NextQueue]_vars

(***************************************************************************)
(* SpecPool: the pool under every configuration.  One RTResource without   *)
(* replicas is created, changes its criticality and is deleted, so that    *)
(* the watchdogs are busy and idle in every order; the example pool is     *)
(* driven by the creation alone.                                           *)
(***************************************************************************)
InitPool ==
    \E c \in Configs :
        /\ InitShared(c)
        /\ InitThreads
        /\ InitCluster
        /\ ext = IF c = ExampleConfig THEN 1 ELSE MaxExt

NextPool ==
    \/ \E crit \in Bands : EnvCreate("a", 0, crit, NoConds, FALSE)
    \/ \E crit \in Bands : EnvUpdate("a", 0, crit)
    \/ EnvDelete("a")
    \/ CrdWatcherOpen
    \/ PodWatcherOpen
    \/ CrdWatcherEvent
    \/ Server
    \/ \E t \in Tids : \/ WatchdogOpen(t)
                       \/ WatchdogReceive(t)
                       \/ WatchdogBusy(t)
                       \/ WatchdogGet(t)
                       \/ WatchdogReplaceStatus(t)
                       \/ WatchdogList(t)
                       \/ WatchdogListOrphans(t)
                       \/ WatchdogPost(t)
                       \/ WatchdogClose(t)

SpecPool == InitPool /\ [][NextPool]_vars

(***************************************************************************)
(* The cluster scenarios: one RTResource is created, scaled and deleted    *)
(* and its pods start.  SpecReconcile is one watchdog together with the    *)
(* resource state updater; SpecMain is the process as main.rs builds it    *)
(* (no updater thread), with two watchdogs.                                *)
(***************************************************************************)
ClusterChanges(CS) ==
    \/ \E reps \in 0..MaxReplicas, conds \in CS : EnvCreate("a", reps, 0, conds, FALSE)
    \/ \E reps \in 0..MaxReplicas : EnvUpdate("a", reps, 0)
    \/ EnvDelete("a")
    \/ \E p \in PodIds : EnvPodRunning(p)

NextCluster(CS) ==
    \/ ClusterChanges(CS)
    \/ CrdWatcherOpen
    \/ PodWatcherOpen
    \/ CrdWatcherEvent
    \/ PodWatcherSkip
    \/ StaticServer
    \/ \E t \in Tids : StaticWatchdog(t)

NextReconcile ==
    \/ NextCluster({NoConds, SeededConds})
    \/ Updater

SpecReconcile == InitWith({OneWatchdog}, MaxExt) /\ [][NextReconcile]_vars

SpecMain == InitWith({TwoWatchdogs}, MaxExt) /\ [][NextCluster({NoConds})]_vars

(***************************************************************************)
(* SpecHeal: one watchdog, one RTResource whose pod template carries or    *)
(* does not carry the labels pod_watcher reads, and pods deleted from      *)
(* outside.                                                                *)
(***************************************************************************)
NextHeal ==
    \/ \E reps \in 0..1, lab \in BOOLEAN : EnvCreate("a", reps, 0, NoConds, lab)
    \/ \E p \in PodIds : EnvPodRunning(p)
    \/ \E p \in PodIds : EnvPodKill(p)
    \/ Watchers
    \/ StaticServer
    \/ \E t \in Tids : \/ WatchdogOpen(t)
                       \/ WatchdogReceive(t)
                       \/ WatchdogBusy(t)
                       \/ WatchdogGet(t)
                       \/ WatchdogReplaceStatus(t)
                       \/ WatchdogList(t)
                       \/ WatchdogCreatePod(t)
                       \/ WatchdogPost(t)

SpecHeal == InitWith({OneWatchdog}, MaxExt) /\ [][NextHeal]_vars

(***************************************************************************)
(* API calls that fail (components/watchdog.rs).  Each failure is one of   *)
(* the external changes counted by ext.                                    *)
(***************************************************************************)
\* The errors a get of the RTResource returns besides not-found: the text of
\* the error (its to_string()) contains "404" or does not, e.g. a refused
\* connection to port 44043 or a server error that quotes a name with 404.
OtherErrors == { [not_found |-> FALSE, has404 |-> b] : b \in BOOLEAN }

\* Line 260: e.to_string().find("404").
Find404(e) == e.has404

\* Lines 166, 259-284: the get fails with an error that is not not-found;
\* the branch is chosen by the text of the error.
WatchdogGetFails(t, e) ==
    /\ proc = "running"
    /\ wk[t].pc = "get"
    /\ ext > 0
    /\ ext' = ext - 1
    /\ wk' = [wk EXCEPT ![t] =
           IF Find404(e)
           THEN [@ EXCEPT !.pc = "gclist",
                       !.prio = SchedSetParam(wk[t].prio, EventPriority(wk[t].band))]
           ELSE Reconciled(@)]
    /\ UNCHANGED <<cfg, sharedVars, srv, watchers, upd, mq, mq_linked, proc,
                   clusterVars>>

\* Lines 207-234: replace_status fails; the error is printed and the
\* reconciliation goes on to the pod list.
WatchdogReplaceStatusFails(t) ==
    /\ proc = "running"
    /\ wk[t].pc = "status"
    /\ ext > 0
    /\ ext' = ext - 1
    /\ wk' = [wk EXCEPT ![t].pc = "list"]
    /\ UNCHANGED <<cfg, sharedVars, srv, watchers, upd, mq, mq_linked, proc,
                   clusterVars>>

\* Lines 241 and 273: pods_api.list(..).await.unwrap() on an Err panics in
\* the extern "C" thread function.  The unwinding either ends this thread
\* alone or aborts the process, depending on the toolchain; the watchdog
\* never reaches lines 296-316.
WatchdogListFails(t) ==
    /\ proc = "running"
    /\ wk[t].pc \in {"list", "gclist"}
    /\ ext > 0
    /\ ext' = ext - 1
    /\ wk' = [wk EXCEPT ![t].pc = "panicked"]
    /\ proc' \in {"running", "exited"}
    /\ UNCHANGED <<cfg, sharedVars, srv, watchers, upd, mq, mq_linked,
                   clusterVars>>

\* Lines 246-250: create_pod fails; the error is printed, the loop goes on.
WatchdogCreatePodFails(t) ==
    /\ proc = "running"
    /\ wk[t].pc = "create"
    /\ ext > 0
    /\ ext' = ext - 1
    /\ wk' = [wk EXCEPT ![t] = IF @.need > 1 THEN [@ EXCEPT !.need = @ - 1]
                                ELSE Reconciled(@)]
    /\ UNCHANGED <<cfg, sharedVars, srv, watchers, upd, mq, mq_linked, proc,
                   clusterVars>>

\* Lines 252-256 and 274-278: delete_pod fails; the error is printed, the
\* loop goes on.
WatchdogDeletePodFails(t) ==
    /\ proc = "running"
    /\ wk[t].pc = "delete"
    /\ ext > 0
    /\ ext' = ext - 1
    /\ wk' = [wk EXCEPT ![t] = IF Len(@.del) > 1 THEN [@ EXCEPT !.del = Tail(@)]
                                ELSE Reconciled(@)]
    /\ UNCHANGED <<cfg, sharedVars, srv, watchers, upd, mq, mq_linked, proc,
                   clusterVars>>

(***************************************************************************)
(* SpecFaults: one watchdog reconciles one RTResource that is created,     *)
(* scaled and deleted while the API calls of the reconciliation may fail.  *)
(***************************************************************************)
NextFaults ==
    \/ \E reps \in 0..MaxReplicas : EnvCreate("a", reps, 0, NoConds, FALSE)
    \/ \E reps \in 0..MaxReplicas : EnvUpdate("a", reps, 0)
    \/ EnvDelete("a")
    \/ CrdWatcherOpen
    \/ PodWatcherOpen
    \/ CrdWatcherEvent
    \/ PodWatcherSkip
    \/ StaticServer
    \/ \E t \in Tids : StaticWatchdog(t)
    \/ \E t \in Tids, e \in OtherErrors : WatchdogGetFails(t, e)
    \/ \E t \in Tids : WatchdogReplaceStatusFails(t)
    \/ \E t \in Tids : WatchdogListFails(t)
    \/ \E t \in Tids : WatchdogCreatePodFails(t)
    \/ \E t \in Tids : WatchdogDeletePodFails(t)

SpecFaults == InitWith({OneWatchdog}, MaxExt + 1) /\ [][NextFaults]_vars

(***************************************************************************)
(* SpecPriority: two watchdogs handle the events of RTResources whose      *)
(* criticality is taken from the values around the watchdog's base         *)
(* priority.                                                               *)
(***************************************************************************)
Criticalities == {0, 1, BasePriority - 1, BasePriority, BasePriority + 1}

NextPriority ==
    \/ \E n \in Names, crit \in Criticalities : EnvCreate(n, 0, crit, NoConds, FALSE)
    \/ CrdWatcherOpen
    \/ PodWatcherOpen
    \/ CrdWatcherEvent
    \/ StaticServer
    \/ \E t \in Tids : \/ WatchdogOpen(t)
                       \/ WatchdogReceive(t)
                       \/ WatchdogBusy(t)
                       \/ WatchdogGet(t)
                       \/ WatchdogReplaceStatus(t)
                       \/ WatchdogList(t)
                       \/ WatchdogPost(t)

SpecPriority == InitWith({TwoWatchdogs}, MaxExt) /\ [][NextPriority]_vars

(***************************************************************************)
(* SpecSpawn: the pool of SpecPool when pthread_create of a watchdog may   *)
(* fail in the server's spawn loop.  Each failure is one of the external   *)
(* changes counted by ext.                                                 *)
(***************************************************************************)
\* usize arithmetic is modulo 2^64; the model keeps the wrap-around with 30
\* bits, the widest power of two TLC's integers hold.  Only i >= needed
\* matters after a wrap.
UsizeModulus == 2^30

\* Lines 122-129 of event_server.rs: pthread_create returned an error.
\* i = i - 1 on the usize i comes first: with i = 0 it panics in a build
\* with overflow checks (the process aborts) and wraps in a build without
\* them.  Then error_count + 1, `break 'outer` above 5, next pass of the
\* while loop otherwise.
ServerSpawnFails ==
    /\ proc = "running"
    /\ srv.pc = "spawn"
    /\ FreeSlots # {}
    /\ ext > 0
    /\ ext' = ext - 1
    /\ \/ /\ srv.i = 0
          /\ proc' = "exited"
          /\ UNCHANGED srv
       \/ /\ LET i == (srv.i - 1) % UsizeModulus
                  error_count == srv.error_count + 1
              IN  srv' = [srv EXCEPT
                      !.i = i,
                      !.error_count = error_count,
                      !.pc = IF error_count > 5 THEN "join" ELSE AfterSpawn(i)]
          /\ UNCHANGED proc
    /\ UNCHANGED <<cfg, sharedVars, wk, watchers, upd, mq, mq_linked, clusterVars>>

\* Lines 68-79 of event_server.rs: pthread_create fails in the bootstrap
\* loop: the error is printed and workers[i].active = true is executed all
\* the same.
ServerBootSpawnFails ==
    /\ proc = "running"
    /\ srv.pc = "bootspawn"
    /\ ext > 0
    /\ ext' = ext - 1
    /\ workers' = [workers EXCEPT ![srv.i].active = TRUE]
    /\ srv' = [srv EXCEPT !.i = @ + 1,
                          !.pc = IF srv.i + 1 < cfg.min_watchdogs
                                 THEN "bootspawn" ELSE "lock"]
    /\ UNCHANGED <<cfg, active_threads, working_threads, mutex, wk, watchers, upd,
                   mq, mq_linked, proc, clusterVars>>

NextSpawn ==
    \/ NextPool
    \/ ServerSpawnFails
    \/ ServerBootSpawnFails

SpecSpawn == InitPool /\ [][NextSpawn]_vars

(***************************************************************************)
(* SpecUpdater: the resource state updater next to one watchdog, for one   *)
(* RTResource with seeded conditions, when the updater's API calls may     *)
(* fail.  The failures of the RTResource list are bounded by the updater's *)
(* own error_count.                                                        *)
(***************************************************************************)
\* Lines 125-132 of resource_state_updater.rs: the list of the RTResources
\* fails: error_count + 1, and the loop is left at 10.
UpdaterListFails ==
    /\ proc = "running"
    /\ upd.pc = "list"
    /\ LET error_count == upd.error_count + 1
       IN  upd' = [upd EXCEPT !.error_count = error_count,
                              !.streak = @ + 1,
                              !.pc = IF error_count >= 10 THEN "exited" ELSE "list"]
    /\ UNCHANGED <<cfg, sharedVars, srv, wk, watchers, mq, mq_linked, proc,
                   clusterVars, ext>>

\* Lines 48-54: the pod list of one resource fails: on to the next resource.
UpdaterCountFails ==
    /\ proc = "running"
    /\ upd.pc = "pods"
    /\ upd' = UpdaterAt(upd, upd.items)
    /\ UNCHANGED <<cfg, sharedVars, srv, wk, watchers, mq, mq_linked, proc,
                   clusterVars, ext>>

\* Lines 109-120: replace_status fails: logged, on to the next resource.
UpdaterReplaceStatusFails ==
    /\ proc = "running"
    /\ upd.pc = "write"
    /\ upd' = UpdaterAt(upd, upd.items)
    /\ UNCHANGED <<cfg, sharedVars, srv, wk, watchers, mq, mq_linked, proc,
                   clusterVars, ext>>

NextUpdater ==
    \/ \E reps \in 0..1 : EnvCreate("a", reps, 0, SeededConds, FALSE)
    \/ \E p \in PodIds : EnvPodRunning(p)
    \/ CrdWatcherOpen
    \/ PodWatcherOpen
    \/ CrdWatcherEvent
    \/ StaticServer
    \/ \E t \in Tids : \/ WatchdogOpen(t)
                       \/ WatchdogReceive(t)
                       \/ WatchdogBusy(t)
                       \/ WatchdogGet(t)
                       \/ WatchdogReplaceStatus(t)
                       \/ WatchdogList(t)
                       \/ WatchdogCreatePod(t)
                       \/ WatchdogPost(t)
    \/ Updater
    \/ UpdaterListFails
    \/ UpdaterCountFails
    \/ UpdaterReplaceStatusFails

SpecUpdater == InitWith({OneWatchdog}, 1) /\ [][NextUpdater]_vars

(***************************************************************************)
(* SpecWatch: the two watchers with everything their watch streams can     *)
(* deliver: RTResources of a criticality the queue accepts or refuses,     *)
(* restarts and errors of the RTResource watch, and pod events of every    *)
(* kind, with and without the labels and with a criticality label that     *)
(* parses or not.                                                          *)
(***************************************************************************)
\* The watch stream of crd_watcher yields Event::Restarted (the initial
\* list, a re-list) or an Err.
EnvWatchOther(k) ==
    /\ proc = "running"
    /\ ext > 0
    /\ Len(rtWatch) < MaxWatch
    /\ rtWatch' = Append(rtWatch, [kind |-> k, name |-> "none", criticality |-> 0])
    /\ ext' = ext - 1
    /\ UNCHANGED <<cfg, sharedVars, threadVars, rt, pods, podWatch>>

\* The pod events of the cluster: Applied or Deleted, of a pod that carries
\* the three rtresource_ labels or not, with a criticality label that
\* parses as u32 or is missing or is other text.
PodEvents ==
    { [kind |-> k, owner |-> "a", criticality |-> c, labelled |-> l, parses |-> ps] :
        k \in {"Applied", "Deleted"}, c \in Bands, l \in BOOLEAN, ps \in BOOLEAN }

EnvPodEvent(e) ==
    /\ proc = "running"
    /\ ext > 0
    /\ Len(podWatch) < MaxWatch
    /\ podWatch' = Append(podWatch, e)
    /\ ext' = ext - 1
    /\ UNCHANGED <<cfg, sharedVars, threadVars, rt, pods, rtWatch>>

\* Another process with the queue's name writes bytes that are no message.
EnvSendGarbage(b) ==
    /\ proc = "running"
    /\ ext > 0
    /\ mq_linked
    /\ Len(mq) < MaxQueue
    /\ mq' = Append(mq, Garbage(b))
    /\ ext' = ext - 1
    /\ UNCHANGED <<cfg, sharedVars, srv, wk, watchers, upd, mq_linked, proc,
                   clusterVars>>

WatchCriticalities == {0, 1, MqPrioMax}

NextWatch ==
    \/ \E n \in Names, crit \in WatchCriticalities : EnvCreate(n, 0, crit, NoConds, FALSE)
    \/ \E n \in Names : EnvDelete(n)
    \/ \E k \in {"Restarted", "Error"} : EnvWatchOther(k)
    \/ \E e \in PodEvents : EnvPodEvent(e)
    \/ \E b \in Bands : EnvSendGarbage(b)
    \/ \E t \in Tids : WatchdogReceiveFails(t)
    \/ Watchers
    \/ CrdWatcherIgnore
    \/ StaticServer
    \/ \E t \in Tids : \/ WatchdogOpen(t)
                       \/ WatchdogReceive(t)
                       \/ WatchdogBusy(t)
                       \/ WatchdogGet(t)
                       \/ WatchdogReplaceStatus(t)
                       \/ WatchdogList(t)
                       \/ WatchdogListOrphans(t)
                       \/ WatchdogPost(t)

SpecWatch == InitWith({OneWatchdog}, MaxExt) /\ [][NextWatch]_vars

(***************************************************************************)
(* SpecSweep: two RTResources of 0 replicas and of any criticalities, one  *)
(* watchdog that marks them Progressing, and the resource state updater.   *)
(***************************************************************************)
NextSweep ==
    \/ \E n \in Names, crit \in Bands : EnvCreate(n, 0, crit, SeededConds, FALSE)
    \/ CrdWatcherOpen
    \/ CrdWatcherEvent
    \/ StaticServer
    \/ \E t \in Tids : \/ WatchdogOpen(t)
                       \/ WatchdogReceive(t)
                       \/ WatchdogBusy(t)
                       \/ WatchdogGet(t)
                       \/ WatchdogReplaceStatus(t)
                       \/ WatchdogList(t)
                       \/ WatchdogPost(t)
    \/ Updater

SpecSweep == InitWith({OneWatchdog}, MaxExt) /\ [][NextSweep]_vars

(***************************************************************************)
(* SpecQuiesce: one RTResource is created, with or without seeded          *)
(* conditions, and nothing else changes from outside; its pod starts.  The *)
(* watchers, the server, the watchdog and the resource state updater are   *)
(* threads the operating system keeps scheduling: each takes a step when   *)
(* it stays able to.                                                       *)
(***************************************************************************)
QuiesceWatchers ==
    \/ CrdWatcherOpen
    \/ PodWatcherOpen
    \/ CrdWatcherEvent

QuiesceWatchdog(t) ==
    \/ WatchdogOpen(t)
    \/ WatchdogReceive(t)
    \/ WatchdogBusy(t)
    \/ WatchdogGet(t)
    \/ WatchdogReplaceStatus(t)
    \/ WatchdogList(t)
    \/ WatchdogCreatePod(t)
    \/ WatchdogPost(t)

PodStarts == \E p \in PodIds : EnvPodRunning(p)

NextQuiesce ==
    \/ \E reps \in 0..1, conds \in {NoConds, SeededConds} :
          EnvCreate("a", reps, 0, conds, FALSE)
    \/ PodStarts
    \/ QuiesceWatchers
    \/ StaticServer
    \/ \E t \in Tids : QuiesceWatchdog(t)
    \/ Updater

SpecQuiesce ==
    /\ InitWith({OneWatchdog}, 1)
    /\ [][NextQuiesce]_vars
    /\ WF_vars(PodStarts)
    /\ WF_vars(QuiesceWatchers)
    /\ WF_vars(StaticServer)
    /\ \A t \in Tids : WF_vars(QuiesceWatchdog(t))
    /\ WF_vars(Updater)

(***************************************************************************)
(* Properties.                                                             *)
(***************************************************************************)
Min(x, y) == IF x < y THEN x ELSE y

\* A watchdog that has received a message and not yet reported itself busy.
JustReceived(t) == wk[t].pc = "busy"

\* The positions in q of the messages of band b.
InBand(q, b) == { i \in 1..Len(q) : q[i].band = b }

\* Nothing is left to do: every event has been delivered and handled, every
\* pod has started, and the updater finds no resource to handle.
Quiescent ==
    /\ proc = "running"
    /\ watchers.crd = "watch" /\ watchers.pod = "watch"
    /\ srv.pc \in {"lock", "condwait"}
    /\ \A t \in Tids : wk[t].pc \in {"none", "recv"}
    /\ mq = <<>> /\ rtWatch = <<>> /\ podWatch = <<>>
    /\ upd.pc = "list"
    /\ \A n \in Names : ~(rt[n].phase = "exists"
                          /\ rt[n].status.conditions.Progressing = "True")
    /\ \A p \in PodIds : pods[p].phase # "Pending"

\* C1: a watchdog that dequeues receives a message of the lowest-numbered
\* band that holds a message (band 0 the most critical): no message the
\* dequeue found in the queue has a lower band than the one it took.
DequeuesLowestBand ==
    \A t \in Tids :
        JustReceived(t) =>
            \A i \in 1..Len(wk[t].seen) : wk[t].band <= wk[t].seen[i].band

\* C2: within one band the messages are delivered in the order they were
\* enqueued, whichever watcher sent them and whichever watchdog dequeues:
\* the message a dequeue takes is the oldest message of its band.
FifoWithinBand ==
    \A t \in Tids :
        JustReceived(t) =>
            LET q == wk[t].seen
                first == Lowest(InBand(q, wk[t].band))
            IN  /\ InBand(q, wk[t].band) # {}
                /\ q[first].name = wk[t].name

\* A dequeue that found two messages of its band, for different resources.
FifoWitness ==
    \E t \in Tids :
        /\ JustReceived(t)
        /\ \E i, j \in InBand(wk[t].seen, wk[t].band) :
                i < j /\ wk[t].seen[i].name # wk[t].seen[j].name

\* C3: at every moment working_threads <= active_threads <= max_watchdogs.
PoolCounters ==
    /\ working_threads <= active_threads
    /\ active_threads <= cfg.max_watchdogs

\* A pool grown to max_watchdogs with every watchdog of it busy.
PoolCountersWitness ==
    /\ cfg.min_watchdogs < cfg.max_watchdogs
    /\ active_threads = cfg.max_watchdogs
    /\ working_threads = active_threads

\* C4: once the server has set up the pool, active_threads >= min_watchdogs.
PoolFloor == srv.pc # "boot" => active_threads >= cfg.min_watchdogs

\* A watchdog has terminated itself and the pool is at its floor.
PoolFloorWitness ==
    /\ \E t \in Tids : wk[t].pc = "close"
    /\ active_threads = cfg.min_watchdogs

\* C5: with no external change and no pod failure the system settles with
\* spec.replicas pods, Progressing = False and Ready = True for every
\* RTResource that exists, a resource created without conditions included.
Converges ==
    Quiescent =>
        \A n \in Names :
            rt[n].phase = "exists" =>
                /\ Cardinality(PodsOf(pods, n)) = rt[n].replicas
                /\ rt[n].status.conditions.Progressing = "False"
                /\ rt[n].status.conditions.Ready = "True"

\* C6: once an RTResource is deleted and the system has settled, no pod
\* labelled with its uid is left, however the watchdog that handles the
\* deletion interleaves with watchdogs that handle earlier events.
DeletedLeavesNoPods ==
    Quiescent =>
        \A n \in Names : rt[n].phase = "deleted" => PodsOf(pods, n) = {}

\* C7: a reconciliation is idempotent: run twice with no change in between,
\* the second run leaves the pods and the RTResource status as the first
\* run left them.
ReconcileIdempotent ==
    \A n \in Names :
        LET once == Reconcile([rt |-> rt, pods |-> pods], n)
        IN  Reconcile(once, n) = once

\* A watchdog has completed a reconciliation that created pods, and a
\* further reconciliation changes nothing.
ReconcileWitness ==
    /\ \E t \in Tids : wk[t].pc = "post"
    /\ rt["a"].phase = "exists"
    /\ rt["a"].replicas > 0
    /\ Cardinality(PodsOf(pods, "a")) = rt["a"].replicas
    /\ rt["a"].status.desired_replicas = rt["a"].replicas
    /\ Reconcile([rt |-> rt, pods |-> pods], "a") = [rt |-> rt, pods |-> pods]

\* C8: a scaling step of the server that sees fewer than threshold idle
\* watchdogs while w are busy sets active_threads to
\* min(w + threshold, max_watchdogs).
AutoscaleAmount ==
    [][ (/\ srv'.last_working # srv.last_working
         /\ active_threads - working_threads < cfg.threshold)
        => active_threads' = Min(working_threads + cfg.threshold, cfg.max_watchdogs)
      ]_vars

\* min 2, max 8, threshold 3: the server has seen two busy watchdogs and
\* the pool is at 5.
AutoscaleWitness ==
    /\ cfg = ExampleConfig
    /\ srv.last_working = 2
    /\ working_threads = 2
    /\ active_threads = 5
    /\ srv.pc \in {"spawn", "mark"}

\* C9: the server does not stay blocked on the condition while fewer than
\* threshold watchdogs are idle and the pool is below max_watchdogs (in a
\* pool that starts with threshold idle watchdogs): blocked with
\* working_threads unchanged since its last pass, only a signal lets it
\* scale, and no signal comes unless an idle watchdog takes an event.
SupervisorResponsive ==
    (/\ cfg.threshold <= cfg.min_watchdogs
     /\ srv.pc = "condwait"
     /\ working_threads = srv.last_working)
    => \/ active_threads - working_threads >= cfg.threshold
       \/ active_threads = cfg.max_watchdogs

\* C10: the process keeps status.replicas equal to the number of Running
\* pods: once the system has settled, a resource with Running pods reports
\* their number.
StatusReplicasConverges ==
    Quiescent =>
        \A n \in Names :
            (rt[n].phase = "exists" /\ RunningCount(pods, n) > 0)
                => rt[n].status.replicas = RunningCount(pods, n)

\* C11: every pod the reconciliation creates carries the labels
\* rtresource_id, rtresource_name, rtresource_uid, rtresource_namespace and
\* criticality.
ManagedPodLabels ==
    \A p \in PodIds :
        pods[p].owner # "none" =>
            {"rtresource_id", "rtresource_name", "rtresource_uid",
             "rtresource_namespace", "criticality"} \subseteq PodLabels(pods[p])

\* C12: after the cluster has deleted a pod of an RTResource that exists,
\* the controller re-creates it: once the system has settled, the resource
\* has spec.replicas pods again.
PodCountRestored ==
    Quiescent =>
        \A n \in Names :
            rt[n].phase = "exists" => Cardinality(PodsOf(pods, n)) = rt[n].replicas


\* C13: a watcher's send on a full queue returns at once and the watcher goes
\* on: a watcher that has a watch event to process can always take its step,
\* also while the queue holds its capacity of messages.
SendNeverBlocks ==
    /\ (proc = "running" /\ watchers.crd = "watch" /\ rtWatch # <<>>)
           => ENABLED CrdWatcherEvent
    /\ (proc = "running" /\ watchers.pod = "watch" /\ podWatch # <<>>)
           => ENABLED (PodWatcherEvent \/ PodWatcherSkip)

\* C14: a watchdog's mq_open of the named queue succeeds in every
\* interleaving and at every time: no step in which a watchdog opens the queue
\* ends the process.
QueueOpens ==
    [][(\E t \in Tids : WatchdogOpen(t)) => proc' = "running"]_vars

\* C15: whatever the API calls of a reconciliation return, the watchdog
\* finishes the event (priority 94 again, working_threads decremented, next
\* event or self-termination): no API failure stops a watchdog abnormally.
FaultsContained ==
    \A t \in Tids : wk[t].pc # "panicked"

\* C16: the reconciliation takes the branch that deletes every pod of the
\* uid only when the fetch of the RTResource ended in not-found: a watchdog
\* in that branch handles a resource that no longer exists.
DeletedBranchOnlyOnNotFound ==
    \A t \in Tids :
        wk[t].pc = "gclist" => rt[wk[t].name].phase # "exists"

\* C17: every time the server is at a suspension point (about to take the
\* mutex, or waiting on the condition) the number of slots with active = true
\* equals active_threads.
SlotTableConsistent ==
    srv.pc \in {"lock", "condwait"} =>
        Cardinality({ s \in Slots : workers[s].active }) = active_threads

\* C18: a slot is inactive exactly when its watchdog has decided to
\* terminate and has decremented active_threads: the slot of a watchdog that
\* is still in its dequeue loop is active, and a slot whose watchdog has
\* terminated (id 0 again) stays inactive until a new watchdog is spawned
\* into it.
SlotMatchesWorker ==
    \A s \in Slots :
        /\ (workers[s].id # 0 /\ wk[workers[s].id].pc \notin {"none", "close"})
               => workers[s].active
        /\ workers[s].id = 0 => ~workers[s].active

\* Lines 104-136 of event_server.rs: the server has unlocked the mutex and
\* is in its spawn loop, where it scans the slots for active = false, lets
\* pthread_create write a slot's id and sets the slot's active flag.
ServerInSpawnLoop == srv.pc \in {"spawn", "mark"}

\* C19: every access to the slot table happens with the mutex held, so the
\* accesses of two threads never overlap: no watchdog writes a slot (its
\* clean-up) while the server is reading and writing slots in its spawn loop.
SlotAccessExclusive ==
    [][\A t \in Tids :
          (wk[t].pc = "post" /\ wk'[t].pc = "close" /\ workers' # workers)
              => ~ServerInSpawnLoop]_vars

\* C20: the condition is signalled on every idle->busy and every busy->idle
\* transition of a watchdog: each step that changes working_threads wakes a
\* server that waits on the condition.
SignalOnEveryTransition ==
    [][working_threads' # working_threads => srv' = Signalled(srv)]_vars

\* C21: a watchdog decides to terminate exactly in the step that finishes an
\* event and decrements working_threads, and exactly when after the decrement
\* active_threads - working_threads > threshold and active_threads >
\* min_watchdogs; it never ends from its receive or from a reconciliation, and
\* a termination leaves active_threads - working_threads >= threshold.
SelfTermination ==
    [][\A t \in Tids :
          LET ends == wk[t].pc # "close" /\ wk'[t].pc = "close"
              finishes == wk[t].pc = "post" /\ wk'[t].pc # "post"
          IN  /\ ends => finishes
              /\ finishes =>
                    /\ working_threads' = working_threads - 1
                    /\ ends <=> (/\ active_threads - working_threads' > cfg.threshold
                                 /\ active_threads > cfg.min_watchdogs)
              /\ ends => active_threads' - working_threads' >= cfg.threshold
              /\ (wk[t].pc # "none" /\ wk'[t].pc = "none") => wk[t].pc = "close"]_vars

SelfTerminationWitness ==
    \E t \in Tids :
        /\ wk[t].pc = "close"
        /\ active_threads >= cfg.min_watchdogs
        /\ active_threads - working_threads >= cfg.threshold

\* A watchdog between its get of the RTResource and the end of the
\* reconciliation of the event it received.
Reconciling(t) == wk[t].pc \in {"status", "list", "create", "delete", "gclist"}

\* C22: for every event of band b a watchdog handles, its priority is 94 - b
\* from after the increment of working_threads until the reconciliation has
\* returned, and 94 again before working_threads is decremented; a watchdog
\* that waits in mq_receive has priority 94.
PriorityBracket ==
    \A t \in Tids :
        /\ wk[t].pc \in {"open", "recv", "busy", "get", "post", "close"}
               => wk[t].prio = BasePriority
        /\ Reconciling(t) => wk[t].prio = BasePriority - wk[t].band

\* C23: for every criticality c an RTResource carries, 94 - c is a FIFO
\* priority in 1..99 that stays below the server's 95, and of two watchdogs
\* that handle events the one with the smaller criticality runs at the
\* strictly higher priority.
PriorityArithmetic ==
    \A t1, t2 \in Tids :
        (Reconciling(t1) /\ Reconciling(t2)) =>
            /\ EventPriority(wk[t1].band) \in 1..99
            /\ wk[t1].prio < BasePriority + 1
            /\ wk[t1].band < wk[t2].band => wk[t1].prio > wk[t2].prio

\* C24: a failed spawn that is not the sixth in a row leaves the server in
\* its loop, retrying the spawn, whatever the loop index at the failure
\* (also at the first spawn of a scaling step); only more than 5 consecutive
\* failures take the server out of its main loop.
SpawnFailureRetried ==
    [][ServerSpawnFails =>
          \/ srv'.error_count > 5 /\ srv'.pc = "join"
          \/ proc' = "running" /\ srv'.pc = "spawn" /\ srv'.i < srv.needed]_vars

\* C25: the resource state updater leaves its loop exactly when 10
\* consecutive lists of the RTResources have failed: failures separated by a
\* successful list do not add up, and it has left the loop as soon as 10 in
\* a row have failed.
UpdaterExitRule ==
    upd.pc = "exited" <=> upd.streak >= 10

\* C26: a status write of the resource state updater is for a resource whose
\* listed status has Progressing = True; it sets status.replicas to the
\* number of Running pods it counted and, exactly when that number equals
\* status.desired_replicas, Progressing to False and Ready to True; no step
\* of the updater modifies a resource without Progressing = True.
UpdaterStep ==
    [][/\ UpdaterReplaceStatus =>
            LET n == upd.cur.name
                r == upd.cur.r
                running == upd.cur.running
            IN  /\ r.status.conditions.Progressing = "True"
                /\ rt[n].phase = "exists" =>
                      /\ rt'[n].status.replicas = running
                      /\ IF running = r.status.desired_replicas
                         THEN /\ rt'[n].status.conditions.Progressing = "False"
                              /\ rt'[n].status.conditions.Ready = "True"
                         ELSE rt'[n].status.conditions = r.status.conditions
       /\ upd' # upd =>
            \A n \in Names :
                rt[n].status.conditions.Progressing # "True" => rt'[n] = rt[n]]_vars

UpdaterStepWitness ==
    /\ rt["a"].phase = "exists"
    /\ rt["a"].status.conditions = [Progressing |-> "False", Ready |-> "True"]
    /\ rt["a"].replicas > 0
    /\ rt["a"].status.replicas = rt["a"].status.desired_replicas
    /\ rt["a"].status.replicas = RunningCount(pods, "a")

\* C27: after a watchdog has fetched an existing RTResource and written its
\* status, the stored status has observed_generation = metadata.generation,
\* desired_replicas = spec.replicas, a Progressing condition with status True
\* and a Ready condition with status False, whatever conditions the status
\* held before.
StatusPatch ==
    [][\A t \in Tids :
          (WatchdogReplaceStatus(t) /\ rt[wk[t].name].phase = "exists") =>
              LET st == rt'[wk[t].name].status
              IN  /\ st.observed_generation = wk[t].r.generation
                  /\ st.desired_replicas = wk[t].r.replicas
                  /\ st.conditions = [Progressing |-> "True", Ready |-> "False"]]_vars

\* C28: with have = the number of pods listed for the uid and want =
\* spec.replicas, one run of the Exists branch issues exactly want - have
\* create_pod calls when want > have, exactly have - want delete_pod calls,
\* for the first pods of the list, when want < have, and none when
\* want = have.
ReplicaDelta ==
    [][\A t \in Tids :
          /\ WatchdogList(t) =>
                LET pod_list == ListPods(pods, wk[t].name)
                    have == Len(pod_list)
                    want == wk[t].r.replicas
                IN  /\ want > have =>
                        wk'[t].pc = "create" /\ wk'[t].need = want - have
                    /\ want < have =>
                        /\ wk'[t].pc = "delete"
                        /\ wk'[t].del = SubSeq(pod_list, 1, have - want)
                    /\ want = have => wk'[t].pc = "post"
          /\ WatchdogCreatePod(t) =>
                /\ Cardinality(PodsOf(pods', wk[t].name))
                       = Cardinality(PodsOf(pods, wk[t].name)) + 1
                /\ IF wk[t].need > 1
                   THEN wk'[t].pc = "create" /\ wk'[t].need = wk[t].need - 1
                   ELSE wk'[t].pc = "post"
          /\ (WatchdogDeletePod(t) /\ wk[t].r.phase = "exists") =>
                /\ pods'[Head(wk[t].del)].owner = "none"
                /\ IF Len(wk[t].del) > 1
                   THEN wk'[t].pc = "delete" /\ wk'[t].del = Tail(wk[t].del)
                   ELSE wk'[t].pc = "post"]_vars

ReplicaDeltaWitness ==
    \E t \in Tids :
        /\ wk[t].pc = "delete"
        /\ wk[t].r.phase = "exists"
        /\ wk[t].r.replicas > 0
        /\ Len(ListPods(pods, wk[t].name)) > wk[t].r.replicas
        /\ Len(wk[t].del) = Len(ListPods(pods, wk[t].name)) - wk[t].r.replicas

\* C29: for every Applied or Deleted event of an RTResource crd_watcher
\* sends exactly one message, for that resource, at band spec.criticality;
\* for every other item of its watch stream (initial list, restart, error)
\* it sends nothing and stays in its watch loop.
WatcherEmission ==
    [][(CrdWatcherEvent \/ CrdWatcherIgnore) =>
          LET e == Head(rtWatch)
          IN  /\ watchers'.crd = "watch" /\ proc' = "running"
              /\ IF e.kind \in {"Applied", "Deleted"}
                 THEN mq' = Append(mq, Message(e.name, e.criticality))
                 ELSE mq' = mq]_vars

\* C30: pod_watcher sends a message only for a Deleted pod event whose
\* labels hold rtresource_name, rtresource_uid, rtresource_namespace and a
\* criticality that parses as an unsigned integer; for every other pod event
\* it sends nothing and goes on with the next event.
PodWatcherFilter ==
    [][(PodWatcherEvent \/ PodWatcherSkip) =>
          LET e == Head(podWatch)
          IN  /\ watchers'.pod = "watch" /\ proc' = "running"
              /\ podWatch' = Tail(podWatch)
              /\ mq' # mq => /\ e.kind = "Deleted" /\ e.labelled /\ e.parses
                             /\ mq' = Append(mq, Message(e.owner, e.criticality))
              /\ ~(e.kind = "Deleted" /\ e.labelled /\ e.parses) => mq' = mq]_vars

\* The queue holds a message for "a" that only pod_watcher can have sent, and
\* the next pod event carries a criticality label that does not parse.
PodWatcherFilterWitness ==
    /\ rt["a"].phase = "absent"
    /\ Len(mq) = 1
    /\ mq[1].name = "a"
    /\ podWatch # <<>>
    /\ Head(podWatch).kind = "Deleted"
    /\ Head(podWatch).labelled
    /\ ~Head(podWatch).parses

\* A watchdog between its increment and its decrement of working_threads.
CountedWorking(t) == wk[t].pc \in {"get", "post"} \/ Reconciling(t)

PoolSizeWriters ==
    [][/\ (ServerLock \/ ServerSpuriousWake \/ ServerSpawn \/ ServerMark) =>
            /\ active_threads' >= active_threads
            /\ working_threads' = working_threads
       /\ active_threads' < active_threads =>
            /\ active_threads' = active_threads - 1
            /\ \E t \in Tids : wk[t].pc = "post" /\ wk'[t].pc = "close"
       /\ active_threads' > active_threads =>
            (ServerLock \/ ServerBoot)]_vars

PoolSizeWritersWitness ==
    /\ srv.pc = "spawn"
    /\ active_threads > cfg.min_watchdogs
    /\ \E t \in Tids : wk[t].pc = "close"

\* C33: the server starts its watchdogs in the lowest slot with active =
\* false, and a slot, at bootstrap and in the main loop alike, is marked
\* active = true only after the spawn of its watchdog succeeded: a step that
\* marks a slot either creates the thread or is the marking that follows a
\* successful pthread_create.
MarkedAfterSpawn ==
    [][\A s \in Slots :
          (~workers[s].active /\ workers'[s].active) =>
              \/ srv.pc = "mark" /\ srv.free = s
              \/ \E t \in Tids : /\ wk[t].pc = "none"
                                 /\ wk'[t].pc = "open"
                                 /\ workers'[s].id = t]_vars

\* C34: a bad dequeue is a no-op: a step in which mq_receive fails, or in
\* which a watchdog takes from the queue bytes that do not decode, leaves
\* working_threads, active_threads, the slot table, every watchdog (its
\* position and its priority), the server (no signal) and the cluster
\* unchanged; the watchdog is back at receive.
BadDequeueNoOp ==
    [][/\ (/\ mq # <<>>
           /\ ~Decodes(mq[MqReceiveIndex(mq)])
           /\ mq' = RemoveAt(mq, MqReceiveIndex(mq))) =>
              UNCHANGED <<sharedVars, wk, srv, clusterVars>>
       /\ (\E t \in Tids : WatchdogReceiveFails(t)) =>
              UNCHANGED <<sharedVars, wk, srv, mq, clusterVars>>]_vars

\* A watchdog waits in receive and the message it will take does not decode,
\* with a decodable message queued behind it.
BadDequeueNoOpWitness ==
    /\ \E t \in Tids : wk[t].pc = "recv"
    /\ Len(mq) = 2
    /\ ~Decodes(mq[MqReceiveIndex(mq)])
    /\ \E i \in 1..Len(mq) : Decodes(mq[i])

\* C35: within one pass of the resource state updater the statuses are
\* written in ascending criticality: when the updater writes the status of a
\* resource, no resource still to be written in the same pass was listed
\* with a lower criticality.
CriticalityOrder ==
    [][UpdaterReplaceStatus =>
          \A i \in 1..Len(upd.items) :
              IsProgressing(upd.items[i]) =>
                  upd.items[i].r.criticality >= upd.cur.r.criticality]_vars

\* The updater has written "b" (criticality 0) and is about to write "a"
\* (criticality 1), which the API server lists first.
CriticalityOrderWitness ==
    /\ upd.pc = "write"
    /\ upd.cur.name = "a"
    /\ upd.cur.r.criticality = 1
    /\ upd.cur.r.status.conditions.Progressing = "True"
    /\ rt["b"].criticality = 0
    /\ upd.items = <<>>
    /\ rt["b"].status.conditions = [Progressing |-> "False", Ready |-> "True"]

\* C36: when two watchdogs reconcile the same RTResource at overlapping
\* times, a pod creation never takes the number of its pods above
\* spec.replicas, and a pod deletion never takes it below spec.replicas
\* (spec.replicas being the value the watchdog fetched, still current).
ConcurrentReconcile ==
    [][\A t \in Tids :
          LET n == wk[t].name
          IN  (/\ wk'[t] # wk[t]
               /\ pods' # pods
               /\ rt[n].phase = "exists"
               /\ wk[t].r.replicas = rt[n].replicas) =>
                  /\ wk[t].pc = "create" =>
                        Cardinality(PodsOf(pods', n)) <= rt[n].replicas
                  /\ (wk[t].pc = "delete" /\ wk[t].r.phase = "exists") =>
                        Cardinality(PodsOf(pods', n)) >= rt[n].replicas]_vars

\* C37: no lost status update: a status write of the resource state updater,
\* built from an earlier snapshot, leaves the stored status.desired_replicas
\* as the watchdog wrote it.
NoLostStatusUpdate ==
    [][(UpdaterReplaceStatus /\ rt[upd.cur.name].phase = "exists") =>
          rt'[upd.cur.name].status.desired_replicas =
              rt[upd.cur.name].status.desired_replicas]_vars

\* C38: the mutex is always released: every watchdog that is running has a
\* slot that holds its thread id, so the clean-up of a terminating watchdog
\* finds its slot and unlocks; no thread keeps the mutex past its critical
\* section, and no thread that has left its loop holds it.
MutexReleased ==
    /\ \A t \in Tids : wk[t].pc \notin {"none", "close"} => OwnSlots(t) # {}
    /\ mutex = 0

\* A watchdog has left its loop through the clean-up: its slot is free again
\* and the mutex is free.
MutexReleasedWitness ==
    /\ \E t \in Tids : wk[t].pc = "close" /\ OwnSlots(t) = {}
    /\ active_threads < Cardinality(Slots)
    /\ mutex = 0

\* C39: the free-slot scan stays in bounds: whenever the server is about to
\* spawn a watchdog in its main loop, some slot has active = false.
FreeSlotScanInBounds ==
    srv.pc = "spawn" => FreeSlots # {}

\* C40: quiescence: after the one external change to an RTResource the
\* controller reconciles it finitely often: from some point on the watch
\* stream and the queue stay empty and no watchdog is busy, the status
\* writes of the watchdogs and of the updater causing no endless sequence of
\* new events.
Quiescence ==
    <>[](rtWatch = <<>> /\ mq = <<>> /\ working_threads = 0)

====
